---- MODULE Spec2Model ----
(***************************************************************************)
(* LP burn detector (burn-detector-go-v2): the watch loop of watchLogs and *)
(* the single-event handler processLPBurn of src/main.go.                  *)
(*                                                                         *)
(* Text is a tuple of one-character strings, so that ToLower, Contains and *)
(* hex encoding are computed.  Big integers are decimal pairs m * 10^e and *)
(* big.Float values are exact rationals n/d * 10^e (rounding to the        *)
(* mantissa precision is not modelled).  An address is the tuple of its    *)
(* lowercase hex digits, abbreviated to its last two bytes.                *)
(***************************************************************************)
EXTENDS Integers, Sequences, FiniteSets, TLC

\* ------------------------------------------------------------------ bounds
\* Number of logs the subscription delivers in one run.
MaxLogs == 2

\* ------------------------------------------------------------------- text
Str_Uniswap == <<"U", "n", "i", "s", "w", "a", "p">>

UpperOf == [c \in {"a", "b", "c", "d", "e", "f", "x"} |->
              CASE c = "a" -> "A" [] c = "b" -> "B" [] c = "c" -> "C"
                [] c = "d" -> "D" [] c = "e" -> "E" [] c = "f" -> "F"
                [] c = "x" -> "X"]

\* strings.ToLower on one character (ASCII letters of the model's alphabet)
LowerChar(c) ==
    CASE c = "A" -> "a" [] c = "B" -> "b" [] c = "C" -> "c" [] c = "D" -> "d"
      [] c = "E" -> "e" [] c = "F" -> "f" [] c = "U" -> "u" [] c = "V" -> "v"
      [] c = "S" -> "s" [] c = "X" -> "x" [] OTHER -> c

\* strings.ToLower
ToLower(s) == [i \in 1..Len(s) |-> LowerChar(s[i])]

\* strings.Contains(s, sub): some window of s equals sub, case-sensitively
Contains(s, sub) ==
    \E i \in 0..(Len(s) - Len(sub)) :
        \A j \in 1..Len(sub) : s[i + j] = sub[j]

HexDigits == <<"0", "1", "2", "3", "4", "5", "6", "7",
               "8", "9", "a", "b", "c", "d", "e", "f">>

RECURSIVE EncodeToString(_)
\* hex.EncodeToString: two lowercase hex digits per byte
EncodeToString(bytes) ==
    IF bytes = <<>> THEN <<>>
    ELSE <<HexDigits[(Head(bytes) \div 16) + 1], HexDigits[(Head(bytes) % 16) + 1]>>
         \o EncodeToString(Tail(bytes))

\* -------------------------------------------------------------- addresses
DeadAddress == <<"d", "e", "a", "d">>
WethAddress == <<"6", "c", "c", "2">>
TokenA      == <<"a", "b", "c", "1">>
TokenB      == <<"7", "e", "f", "2">>
PoolAddress == <<"b", "5", "d", "3">>
NilAddress  == <<>>

\* The digit positions EIP-55 writes in upper case (a function of the
\* Keccak hash of the address, tabulated for the addresses of the model).
ChecksumUpper(a) ==
    CASE a = DeadAddress -> {2, 4}
      [] a = WethAddress -> {2}
      [] a = TokenA      -> {2}
      [] a = TokenB      -> {3}
      [] OTHER           -> {}

\* common.Address.Hex: "0x" and the checksummed (mixed-case) hex digits
Hex(a) ==
    <<"0", "x">> \o
    [i \in 1..Len(a) |->
        IF i \in ChecksumUpper(a) /\ a[i] \in DOMAIN UpperOf THEN UpperOf[a[i]] ELSE a[i]]

\* ------------------------------------------------------------- big numbers
RECURSIVE GCD(_, _)
GCD(a, b) == IF b = 0 THEN a ELSE GCD(b, a % b)

RECURSIVE Pow10(_)
Pow10(k) == IF k = 0 THEN 1 ELSE 10 * Pow10(k - 1)

RECURSIVE NormInt(_)
\* a big.Int as m * 10^e with m not divisible by 10 (zero is 0 * 10^0)
NormInt(b) ==
    IF b.m = 0 THEN [m |-> 0, e |-> 0]
    ELSE IF b.m % 10 = 0 THEN NormInt([m |-> b.m \div 10, e |-> b.e + 1])
    ELSE b

BigInt(m, e) == NormInt([m |-> m, e |-> e])

RECURSIVE NormTens(_)
NormTens(x) ==
    IF x.n % 10 = 0 THEN NormTens([x EXCEPT !.n = x.n \div 10, !.e = x.e + 1])
    ELSE IF x.d % 10 = 0 THEN NormTens([x EXCEPT !.d = x.d \div 10, !.e = x.e - 1])
    ELSE x

\* a finite big.Float as the rational n/d * 10^e in lowest terms
Fin(n, d, e) ==
    IF n = 0 THEN [k |-> "fin", n |-> 0, d |-> 1, e |-> 0]
    ELSE LET g == GCD(n, d)
         IN  NormTens([k |-> "fin", n |-> n \div g, d |-> d \div g, e |-> e])

Inf == [k |-> "inf", n |-> 1, d |-> 1, e |-> 0]
\* the panic value of big.Float arithmetic (ErrNaN)
NaN == [k |-> "nan", n |-> 0, d |-> 1, e |-> 0]

IsZero(x) == x.k = "fin" /\ x.n = 0

\* new(big.Float).SetInt(b)
SetInt(b) == Fin(b.m, 1, b.e)

\* big.NewFloat of a small whole number
NewFloat(i) == Fin(i, 1, 0)

\* new(big.Int).Exp(10, d, nil)
Exp10(d) == BigInt(1, d)

\* big.Float.Quo: panics with ErrNaN on 0/0 and Inf/Inf, x/0 is +Inf
Quo(x, y) ==
    IF x.k = "nan" \/ y.k = "nan" THEN NaN
    ELSE IF (IsZero(x) /\ IsZero(y)) \/ (x.k = "inf" /\ y.k = "inf") THEN NaN
    ELSE IF x.k = "inf" \/ IsZero(y) THEN Inf
    ELSE IF y.k = "inf" THEN Fin(0, 1, 0)
    ELSE Fin(x.n * y.d, x.d * y.n, x.e - y.e)

\* big.Float.Mul: panics with ErrNaN on 0 * Inf
Mul(x, y) ==
    IF x.k = "nan" \/ y.k = "nan" THEN NaN
    ELSE IF (IsZero(x) /\ y.k = "inf") \/ (x.k = "inf" /\ IsZero(y)) THEN NaN
    ELSE IF x.k = "inf" \/ y.k = "inf" THEN Inf
    ELSE Fin(x.n * y.n, x.d * y.d, x.e + y.e)

\* ---------------------------------------------------- decimal digit text
RECURSIVE DigitsOf(_)
\* strconv.FormatInt(n, 10) for n >= 0
DigitsOf(n) ==
    IF n < 10 THEN <<HexDigits[n + 1]>>
    ELSE DigitsOf(n \div 10) \o <<HexDigits[(n % 10) + 1]>>

RECURSIVE Zeros(_)
Zeros(k) == IF k = 0 THEN <<>> ELSE <<"0">> \o Zeros(k - 1)

\* the decimal text of a whole number m * 10^e
IntText(b) == IF b.m = 0 THEN <<"0">> ELSE DigitsOf(b.m) \o Zeros(b.e)

MaxInt64Text == <<"9", "2", "2", "3", "3", "7", "2", "0", "3", "6", "8", "5",
                  "4", "7", "7", "5", "8", "0", "7">>
MinInt64Text == <<"-", "9", "2", "2", "3", "3", "7", "2", "0", "3", "6", "8", "5",
                  "4", "7", "7", "5", "8", "0", "8">>

DigitValue(c) == CHOOSE v \in 0..9 : HexDigits[v + 1] = c

RECURSIVE TextLeq(_, _)
\* s <= t for two digit texts of the same length
TextLeq(s, t) ==
    IF s = <<>> THEN TRUE
    ELSE IF DigitValue(Head(s)) < DigitValue(Head(t)) THEN TRUE
    ELSE IF DigitValue(Head(s)) > DigitValue(Head(t)) THEN FALSE
    ELSE TextLeq(Tail(s), Tail(t))

FitsInt64(text) ==
    \/ Len(text) < Len(MaxInt64Text)
    \/ Len(text) = Len(MaxInt64Text) /\ TextLeq(text, MaxInt64Text)

\* the whole part of a finite big.Float, as decimal text
TruncText(x) ==
    IF x.e < 0 THEN DigitsOf(x.n \div (x.d * Pow10(0 - x.e)))
    ELSE IF x.d = 1 THEN IntText([m |-> x.n, e |-> x.e])
    ELSE DigitsOf((x.n * Pow10(x.e)) \div x.d)

\* big.Float.Int64 followed by strconv.FormatInt: truncation, saturating
FloatInt64Text(x) ==
    IF x.k = "inf" THEN MaxInt64Text
    ELSE IF FitsInt64(TruncText(x)) THEN TruncText(x) ELSE MaxInt64Text

\* the values int64(f) can take for a float64 f = x.Float64(): out of range,
\* the result of the conversion is implementation-dependent
Int64OfFloat64Texts(x) ==
    IF x.k = "fin" /\ FitsInt64(TruncText(x)) THEN {TruncText(x)}
    ELSE {MinInt64Text, MaxInt64Text}

RECURSIVE formatNumberFrom(_, _)
formatNumberFrom(str, i) ==
    IF i > Len(str) THEN <<>>
    ELSE (IF i > 1 /\ (Len(str) - (i - 1)) % 3 = 0 THEN <<",">> ELSE <<>>)
         \o <<str[i]>> \o formatNumberFrom(str, i + 1)

\* formatNumber, applied to the text strconv.FormatInt produced
formatNumber(str) ==
    IF Len(str) <= 3 THEN str ELSE formatNumberFrom(str, 1)

\* ------------------------------------------------- configuration constants
\* DEAD_ADDR and WETH_ADDR are string constants of the configuration block.
\* Their text is configuration: every hex spelling of the address is a value
\* the constant can be given (all lower case, or the EIP-55 checksum form).
Spellings(a) == {ToLower(Hex(a)), Hex(a)}

\* ----------------------------------------------------------- transactions
Selector_a9059cbb == <<"a", "9", "0", "5", "9", "c", "b", "b">>
TransferSelector  == <<169, 5, 156, 187>>
ApproveSelector   == <<9, 94, 167, 179>>

\* Call data: the leading (at most four) bytes and the 32-byte words after
\* the selector.
CallData(head, words) == [head |-> head, words |-> words]

\* len(tx.Data())
DataLen(data) == Len(data.head) + 32 * Len(data.words)

\* hex.EncodeToString(tx.Data()[:4])
functionSelector(data) == EncodeToString(SubSeq(data.head, 1, 4))

\* contractABI.UnpackIntoInterface(&[]interface{}{&to, &value}, "transfer",
\* tx.Data()[4:]), read as the handler uses it: the decoding of the two
\* transfer arguments (address, uint256) from the words after the selector.
\* (go-ethereum itself is not part of the repository; which argument list of
\* the ABI entry the library decodes against is not modelled.)
UnpackTransfer(data) ==
    IF Len(data.words) < 2
    THEN [ok |-> FALSE, to |-> NilAddress, value |-> BigInt(0, 0)]
    ELSE [ok |-> TRUE, to |-> data.words[1], value |-> data.words[2]]

Tx(data, to) == [data |-> data, to |-> to]

NoTx == Tx(CallData(<<>>, <<>>), NilAddress)

\* The transactions the node can return for a hash.
Transactions ==
    { Tx(CallData(TransferSelector, <<r, v>>), PoolAddress) :
          r \in {DeadAddress, TokenA}, v \in {BigInt(1, 22), BigInt(0, 0)} }
    \cup
    { Tx(CallData(<<>>, <<>>), PoolAddress),
      Tx(CallData(<<169, 5>>, <<>>), PoolAddress),
      Tx(CallData(ApproveSelector, <<DeadAddress, BigInt(1, 22)>>), PoolAddress),
      Tx(CallData(TransferSelector, <<DeadAddress>>), PoolAddress),
      Tx(CallData(TransferSelector, <<DeadAddress, BigInt(1, 22)>>), NilAddress) }

\* ------------------------------------------------------- chain and API data
Names ==
    { Str_Uniswap \o <<" ", "V", "2">>,
      ToLower(Str_Uniswap),
      <<"S", "u", "s", "h", "i">> }

LPSupplies    == {BigInt(0, 0), BigInt(1, 24)}
TokenSupplies == {BigInt(1, 24)}
TokenBalances == {BigInt(0, 0), BigInt(5, 22)}
Decimals      == {18, 0}
Token0s       == {WethAddress, TokenA}
Token1s       == {WethAddress, TokenB}
PairTokens    == Token0s \cup Token1s

Holder(address, percent) == [Address |-> address, Percent |-> percent]

SentinelDetails ==
    [TokenName |-> "Unknown", TokenSymbol |-> "UNK", IsHoneypot |-> "undefined",
     BuyTax |-> "0", SellTax |-> "0", HolderCount |-> "0", Holders |-> <<>>]

\* The token-security records the GoPlus API can answer with.
DetailsResults ==
    { [TokenName |-> "Pepe", TokenSymbol |-> "PEPE", IsHoneypot |-> "0",
       BuyTax |-> "0.05", SellTax |-> "abc", HolderCount |-> "120",
       Holders |-> <<Holder("0xh1", "12.5"), Holder("0xh2", "3"), Holder("0xh3", "1")>>] }

SentinelPrice == [Price |-> "0", Mcap |-> <<"0">>]

\* base_price_in_usd texts the GeckoTerminal API can answer with: a decimal
\* number, or a text that does not parse
PriceTexts == {"2", ""}

\* strconv.ParseFloat(attr.BasePriceInUsd, 64), its error ignored
ParsePrice(text) ==
    IF text = "2" THEN NewFloat(2) ELSE NewFloat(0)

\* fmt.Sprintf("%.9f", priceFloat)
PriceText(text) ==
    IF text = "2" THEN "2.000000000" ELSE "0.000000000"

\* strconv.ParseFloat on a tax text and fmt.Sprintf("%.1f%%", tax*100);
\* "" stands for a text that does not parse
TaxPercentText(text) ==
    CASE text = "0.05" -> "5.0%"
      [] text = "0.1"  -> "10.0%"
      [] OTHER         -> ""

\* the link text written for one holder ("%.4f%%" of the parsed percent)
HolderLink(h) ==
    CASE h.Percent = "12.5" -> h.Address \o ":12.5000%"
      [] h.Percent = "3"    -> h.Address \o ":3.0000%"
      [] OTHER              -> h.Address \o ":1.0000%"

\* ------------------------------------------------------------------ state
VARIABLES
    DEAD_ADDR,   \* the configured dead-address text
    WETH_ADDR,   \* the configured wrapped-native-asset address text
    pc,          \* where watchLogs / processLPBurn stands
    logs,        \* logs the subscription holds for the logs channel
    produced,    \* number of logs the subscription has produced
    subErr,      \* sub.Err(): "none", "ready" (an error waits), "received"
    processed,   \* transaction hashes handed to processLPBurn, in order
    alerts,      \* transaction hashes sendTelegramMessage was called for
    txHash,      \* argument of the processLPBurn call in progress (or last)
    err,         \* result of the last processLPBurn ("" while none/running)
    calls,       \* RPC and HTTP calls issued by the current (or last) pass
    loc          \* local variables of the current (or last) pass

vars == <<DEAD_ADDR, WETH_ADDR, pc, logs, produced, subErr, processed, alerts,
          txHash, err, calls, loc>>

Zero == NewFloat(0)

NoMessage ==
    [token |-> <<>>, name |-> "", symbol |-> "", mcap |-> <<>>, hash |-> 0,
     burned |-> Zero, percentage |-> Zero, honeypot |-> "", buyTax |-> "",
     sellTax |-> "", clogged |-> <<>>, cloggedPercentage |-> Zero,
     holderCount |-> "", topHolders |-> <<>>]

EmptyLoc ==
    [tx |-> NoTx, fetched |-> FALSE, pending |-> FALSE, lpAddress |-> NilAddress,
     lpName |-> <<>>, unpackCalled |-> FALSE, decoded |-> FALSE,
     to |-> NilAddress, value |-> BigInt(0, 0), lpSupply |-> BigInt(0, 0),
     burnedLP |-> Zero, percentage |-> Zero,
     token0 |-> NilAddress, token1 |-> NilAddress, tokenContract |-> NilAddress,
     details |-> SentinelDetails, priceData |-> SentinelPrice,
     tokenSupply |-> BigInt(0, 0), tokenDecimals |-> 0, tokenBalance |-> BigInt(0, 0),
     tokenHolding |-> Zero, cloggedPercentage |-> Zero,
     failed |-> {}, message |-> NoMessage]

Init ==
    /\ DEAD_ADDR \in Spellings(DeadAddress)
    /\ WETH_ADDR \in Spellings(WethAddress)
    /\ pc = "subscribe"
    /\ logs = <<>>
    /\ produced = 0
    /\ subErr = "none"
    /\ processed = <<>>
    /\ alerts = <<>>
    /\ txHash = 0
    /\ err = ""
    /\ calls = <<>>
    /\ loc = EmptyLoc

Running == pc \notin {"subscribe", "fatal"}

\* ------------------------------------------------------- the subscription
\* d.client.SubscribeFilterLogs: on failure log.Fatalf ends the process
Subscribe ==
    /\ pc = "subscribe"
    /\ \/ pc' = "select"
       \/ pc' = "fatal"
    /\ UNCHANGED <<DEAD_ADDR, WETH_ADDR, logs, produced, subErr, processed,
                   alerts, txHash, err, calls, loc>>

\* the subscription has a matching log to send on the logs channel
Deliver ==
    /\ Running
    /\ produced < MaxLogs
    /\ produced' = produced + 1
    /\ logs' = Append(logs, produced + 1)
    /\ UNCHANGED <<DEAD_ADDR, WETH_ADDR, pc, subErr, processed, alerts, txHash,
                   err, calls, loc>>

\* the subscription fails: an error becomes ready on sub.Err()
SubscriptionError ==
    /\ Running
    /\ subErr = "none"
    /\ subErr' = "ready"
    /\ UNCHANGED <<DEAD_ADDR, WETH_ADDR, pc, logs, produced, processed, alerts,
                   txHash, err, calls, loc>>

\* ------------------------------------------------------------- watchLogs
\* mutant: the return after the subscription error is missing
RecvErrNoReturn ==
    /\ pc = "select"
    /\ subErr = "ready"
    /\ subErr' = "received"
    /\ UNCHANGED <<DEAD_ADDR, WETH_ADDR, pc, logs, produced, processed, alerts,
                   txHash, err, calls, loc>>

\* case err := <-sub.Err(): log and return
RecvErr ==
    /\ pc = "select"
    /\ subErr = "ready"
    /\ subErr' = "received"
    /\ pc' = "returned"
    /\ UNCHANGED <<DEAD_ADDR, WETH_ADDR, logs, produced, processed, alerts,
                   txHash, err, calls, loc>>

\* mutant: each received log is handled in a goroutine of its own, so a log
\* is taken while the pass of the one before is still running
RecvLogConcurrently ==
    /\ pc \notin {"subscribe", "fatal", "returned", "panic"}
    /\ logs # <<>>
    /\ txHash' = Head(logs)
    /\ logs' = Tail(logs)
    /\ processed' = Append(processed, Head(logs))
    /\ pc' = "TransactionByHash"
    /\ err' = ""
    /\ calls' = <<>>
    /\ loc' = EmptyLoc
    /\ UNCHANGED <<DEAD_ADDR, WETH_ADDR, produced, subErr, alerts>>

\* case vLog := <-logs: call d.processLPBurn(vLog.TxHash)
RecvLog ==
    /\ pc = "select"
    /\ logs # <<>>
    /\ txHash' = Head(logs)
    /\ logs' = Tail(logs)
    /\ processed' = Append(processed, Head(logs))
    /\ pc' = "TransactionByHash"
    /\ err' = ""
    /\ calls' = <<>>
    /\ loc' = EmptyLoc
    /\ UNCHANGED <<DEAD_ADDR, WETH_ADDR, produced, subErr, alerts>>

\* mutant: watchLogs returns when processLPBurn reports an error
ReturnEndsLoopOnError(e) ==
    pc' = (IF e = "nil" THEN "select" ELSE "returned") /\ err' = e

\* processLPBurn returns e; watchLogs logs the outcome and selects again
Return(e) == pc' = "select" /\ err' = e

\* a run-time panic: nothing recovers it, the process ends
Panic(what) == pc' = "panic" /\ err' = what

Continue(next) == pc' = next /\ err' = err

Ctl == <<DEAD_ADDR, WETH_ADDR, logs, produced, subErr, processed, txHash>>

\* --------------------------------------------------------- processLPBurn
\* mutant: the selector comparison is left out
SelectorNotCompared(data) == TRUE

\* functionSelector != "a9059cbb" is false
SelectorMatches(data) == functionSelector(data) = Selector_a9059cbb

\* mutant: the substring match ignores letter case
IsUniswapLPAnyCase(lpName) == Contains(ToLower(lpName), ToLower(Str_Uniswap))

\* !strings.Contains(lpName, "Uniswap") is false
IsUniswapLP(lpName) == Contains(lpName, Str_Uniswap)

\* mutant: the recipient check is left out
RecipientNotChecked(to) == TRUE

\* strings.ToLower(to.Hex()) != DEAD_ADDR is false
IsDeadRecipient(to) == ToLower(Hex(to)) = DEAD_ADDR

EighteenDecimals == SetInt(BigInt(1, 18))

\* burnedLP: the burned amount over 10^18
BurnedLP(value) == Quo(SetInt(value), EighteenDecimals)

\* mutant: burned over supply, the conventional ratio
BurnedOverSupply(value, lpSupply) ==
    Mul(Quo(BurnedLP(value), Quo(SetInt(lpSupply), EighteenDecimals)), NewFloat(100))

\* percentage: parsedSupply / burnedLP * 100
BurnPercentage(value, lpSupply) ==
    Mul(Quo(Quo(SetInt(lpSupply), EighteenDecimals), BurnedLP(value)), NewFloat(100))

\* mutant: the two branches of the selection are exchanged
SelectTokenSwapped(token0, token1) ==
    IF ToLower(Hex(token0)) = WETH_ADDR THEN token0 ELSE token1

\* the token of the pair that is kept as the underlying token
SelectToken(token0, token1) ==
    IF ToLower(Hex(token0)) = WETH_ADDR THEN token1 ELSE token0

\* TransactionByHash, the pending check, the call-data checks and *tx.To()
TransactionByHash ==
    /\ pc = "TransactionByHash"
    /\ calls' = Append(calls, "TransactionByHash")
    /\ \/ /\ Return("failed to get transaction")
          /\ loc' = loc
       \/ /\ Return("transaction is still pending")
          /\ loc' = [loc EXCEPT !.pending = TRUE]
       \/ \E t \in Transactions :
            /\ loc' = [loc EXCEPT !.tx = t, !.fetched = TRUE, !.lpAddress = t.to]
            /\ IF DataLen(t.data) < 4
               THEN Return("transaction data too short")
               ELSE IF ~SelectorMatches(t.data)
               THEN Return("not a transfer function call")
               ELSE IF t.to = NilAddress
               THEN Panic("nil pointer dereference")
               ELSE Continue("getTokenName")
    /\ UNCHANGED <<Ctl, alerts>>

\* getTokenName, the "Uniswap" check, the decoding of the transfer
\* arguments and the dead-address check
getTokenName ==
    /\ pc = "getTokenName"
    /\ calls' = Append(calls, "name")
    /\ \/ /\ Return("failed to get LP name")
          /\ loc' = loc
       \/ \E n \in Names :
            LET u == UnpackTransfer(loc.tx.data) IN
            IF ~IsUniswapLP(n)
            THEN /\ Return("not a Uniswap LP")
                 /\ loc' = [loc EXCEPT !.lpName = n]
            ELSE IF ~u.ok
            THEN /\ Return("failed to decode transfer data")
                 /\ loc' = [loc EXCEPT !.lpName = n, !.unpackCalled = TRUE]
            ELSE /\ loc' = [loc EXCEPT !.lpName = n, !.unpackCalled = TRUE,
                                       !.decoded = TRUE, !.to = u.to,
                                       !.value = u.value]
                 /\ IF ~IsDeadRecipient(u.to)
                    THEN Return("tokens not sent to dead address")
                    ELSE Continue("getLPSupply")
    /\ UNCHANGED <<Ctl, alerts>>

\* getTokenSupply(lpAddress) and the burn percentage
getLPSupply ==
    /\ pc = "getLPSupply"
    /\ calls' = Append(calls, "totalSupply")
    /\ \/ /\ Return("failed to get LP supply")
          /\ loc' = loc
       \/ \E s \in LPSupplies :
            LET p == BurnPercentage(loc.value, s) IN
            /\ loc' = [loc EXCEPT !.lpSupply = s, !.burnedLP = BurnedLP(loc.value),
                                  !.percentage = p]
            /\ IF p.k = "nan" THEN Panic("ErrNaN: burn percentage")
               ELSE Continue("getToken0")
    /\ UNCHANGED <<Ctl, alerts>>

getToken0 ==
    /\ pc = "getToken0"
    /\ calls' = Append(calls, "token0")
    /\ \/ /\ Return("failed to get token0")
          /\ loc' = loc
       \/ \E a \in Token0s :
            /\ loc' = [loc EXCEPT !.token0 = a]
            /\ Continue("getToken1")
    /\ UNCHANGED <<Ctl, alerts>>

\* getToken1 and the choice of the underlying token
getToken1 ==
    /\ pc = "getToken1"
    /\ calls' = Append(calls, "token1")
    /\ \/ /\ Return("failed to get token1")
          /\ loc' = loc
       \/ \E a \in Token1s :
            /\ loc' = [loc EXCEPT !.token1 = a,
                                  !.tokenContract = SelectToken(loc.token0, a)]
            /\ Continue("getTokenDetails")
    /\ UNCHANGED <<Ctl, alerts>>

\* d.getTokenDetails(tokenContract.Hex()), sentinel details on error
getTokenDetails ==
    /\ pc = "getTokenDetails"
    /\ calls' = Append(calls, "GET gopluslabs")
    /\ \/ loc' = [loc EXCEPT !.details = SentinelDetails,
                             !.failed = @ \cup {"details"}]
       \/ \E d \in DetailsResults : loc' = [loc EXCEPT !.details = d]
    /\ Continue("getPriceData")
    /\ UNCHANGED <<Ctl, alerts>>

\* mcapFloat of getPriceData: price * supply / 10^decimals
McapFloat(priceText, supply, decimals) ==
    Mul(ParsePrice(priceText), Quo(SetInt(supply), SetInt(Exp10(decimals))))

\* d.getPriceData(lpAddress.Hex()), sentinel price data on error
getPriceData ==
    /\ pc = "getPriceData"
    /\ \/ /\ calls' = Append(calls, "GET geckoterminal")
          /\ loc' = [loc EXCEPT !.priceData = SentinelPrice,
                                !.failed = @ \cup {"price"}]
          /\ Continue("getTokenSupply")
       \/ /\ calls' = calls \o <<"GET geckoterminal", "totalSupply">>
          /\ loc' = [loc EXCEPT !.priceData = SentinelPrice,
                                !.failed = @ \cup {"price"}]
          /\ Continue("getTokenSupply")
       \/ /\ calls' = calls \o <<"GET geckoterminal", "totalSupply", "decimals">>
          /\ \/ /\ loc' = [loc EXCEPT !.priceData = SentinelPrice,
                                      !.failed = @ \cup {"price"}]
                /\ Continue("getTokenSupply")
             \/ \E text \in PriceTexts, s \in TokenSupplies, d \in Decimals :
                  /\ loc' = [loc EXCEPT !.priceData =
                                [Price |-> PriceText(text),
                                 Mcap  |-> FloatInt64Text(McapFloat(text, s, d))]]
                  /\ Continue("getTokenSupply")
    /\ UNCHANGED <<Ctl, alerts>>

\* d.getTokenSupply(tokenContract), zero on error
getTokenSupply ==
    /\ pc = "getTokenSupply"
    /\ calls' = Append(calls, "totalSupply")
    /\ \/ loc' = [loc EXCEPT !.tokenSupply = BigInt(0, 0),
                             !.failed = @ \cup {"totalSupply"}]
       \/ \E s \in TokenSupplies : loc' = [loc EXCEPT !.tokenSupply = s]
    /\ Continue("getTokenDecimals")
    /\ UNCHANGED <<Ctl, alerts>>

\* d.getTokenDecimals(tokenContract), 18 on error
getTokenDecimals ==
    /\ pc = "getTokenDecimals"
    /\ calls' = Append(calls, "decimals")
    /\ \/ loc' = [loc EXCEPT !.tokenDecimals = 18,
                             !.failed = @ \cup {"decimals"}]
       \/ \E d \in Decimals : loc' = [loc EXCEPT !.tokenDecimals = d]
    /\ Continue("getTokenBalance")
    /\ UNCHANGED <<Ctl, alerts>>

\* tokenHolding: the self-held balance over 10^decimals
TokenHolding(balance, decimals) == Quo(SetInt(balance), SetInt(Exp10(decimals)))

\* mutant: the supply is divided by the raw total supply, not by
\* parsedTokenSupply
HoldingOverRawSupply(balance, supply, decimals) ==
    Mul(Quo(TokenHolding(balance, decimals), SetInt(supply)), NewFloat(100))

\* cloggedPercentage: tokenHolding / parsedTokenSupply * 100
CloggedPercentage(balance, supply, decimals) ==
    Mul(Quo(TokenHolding(balance, decimals),
            Quo(SetInt(supply), SetInt(Exp10(decimals)))),
        NewFloat(100))

honeypotStatus(details) ==
    IF details.IsHoneypot = "0" THEN "False"
    ELSE IF details.IsHoneypot = "1" THEN "True"
    ELSE "Unknown"

\* buyTax / sellTax of the message
taxStatus(text) ==
    IF text # "" /\ text # "0" /\ TaxPercentText(text) # ""
    THEN TaxPercentText(text)
    ELSE "Unknown"

\* topHolders: "N/A", or the links of the first two holders
topHolders(holders) ==
    IF Len(holders) > 0
    THEN [i \in 1..(IF Len(holders) < 2 THEN Len(holders) ELSE 2) |->
             HolderLink(holders[i])]
    ELSE <<"N/A">>

\* the arguments of the message template, as fmt.Sprintf receives them
Message(l, hash, cloggedText) ==
    [token |-> Hex(l.tokenContract), name |-> l.details.TokenName,
     symbol |-> l.details.TokenSymbol, mcap |-> formatNumber(l.priceData.Mcap),
     hash |-> hash, burned |-> l.burnedLP, percentage |-> l.percentage,
     honeypot |-> honeypotStatus(l.details), buyTax |-> taxStatus(l.details.BuyTax),
     sellTax |-> taxStatus(l.details.SellTax), clogged |-> formatNumber(cloggedText),
     cloggedPercentage |-> l.cloggedPercentage,
     holderCount |-> l.details.HolderCount,
     topHolders |-> topHolders(l.details.Holders)]

\* d.getTokenBalance(tokenContract, tokenContract), zero on error; then the
\* clogged percentage and the message
getTokenBalance ==
    /\ pc = "getTokenBalance"
    /\ calls' = Append(calls, "balanceOf")
    /\ \E r \in {[ok |-> FALSE, v |-> BigInt(0, 0)]}
                \cup {[ok |-> TRUE, v |-> b] : b \in TokenBalances} :
         LET failed  == IF r.ok THEN loc.failed ELSE loc.failed \cup {"balanceOf"}
             holding == TokenHolding(r.v, loc.tokenDecimals)
             clogged == CloggedPercentage(r.v, loc.tokenSupply, loc.tokenDecimals)
             l       == [loc EXCEPT !.tokenBalance = r.v, !.failed = failed,
                                    !.tokenHolding = holding,
                                    !.cloggedPercentage = clogged]
         IN  IF clogged.k = "nan"
             THEN /\ Panic("ErrNaN: clogged percentage")
                  /\ loc' = l
             ELSE /\ \E text \in Int64OfFloat64Texts(holding) :
                        loc' = [l EXCEPT !.message = Message(l, txHash, text)]
                  /\ Continue("sendTelegramMessage")
    /\ UNCHANGED <<Ctl, alerts>>

\* return d.sendTelegramMessage(message): the POST, then nil on status 200
sendTelegramMessage ==
    /\ pc = "sendTelegramMessage"
    /\ calls' = Append(calls, "POST telegram")
    /\ alerts' = Append(alerts, txHash)
    /\ \/ Return("nil")
       \/ Return("telegram transport error")
       \/ Return("telegram API error")
    /\ UNCHANGED <<Ctl, loc>>

Next ==
    \/ Subscribe
    \/ Deliver
    \/ SubscriptionError
    \/ RecvErr
    \/ RecvLog
    \/ TransactionByHash
    \/ getTokenName
    \/ getLPSupply
    \/ getToken0
    \/ getToken1
    \/ getTokenDetails
    \/ getPriceData
    \/ getTokenSupply
    \/ getTokenDecimals
    \/ getTokenBalance
    \/ sendTelegramMessage

Spec == Init /\ [][Next]_vars

\* ------------------------------------------------------------- properties
Range(seq) == {seq[i] : i \in 1..Len(seq)}

\* processLPBurn has returned to watchLogs, which went back to its select
\* (and has left it since only by receiving a subscription error)
BackInLoop == pc = "select" \/ (pc = "returned" /\ subErr = "received")

\* the current (or last) pass has called sendTelegramMessage
AlertSent == "POST telegram" \in Range(calls)

\* errors processLPBurn returns from its verification steps
VerificationErrors ==
    {"failed to get transaction", "transaction is still pending",
     "transaction data too short", "not a transfer function call",
     "failed to get LP name", "not a Uniswap LP",
     "failed to decode transfer data", "tokens not sent to dead address",
     "failed to get LP supply", "failed to get token0", "failed to get token1"}

VerificationCalls == <<"TransactionByHash", "name", "totalSupply", "token0", "token1">>

\* every verification step of the pass passed
AllVerified ==
    /\ loc.fetched /\ ~loc.pending
    /\ DataLen(loc.tx.data) >= 4
    /\ functionSelector(loc.tx.data) = Selector_a9059cbb
    /\ Contains(loc.lpName, Str_Uniswap)
    /\ loc.decoded
    /\ loc.to = DeadAddress
    /\ Len(calls) > Len(VerificationCalls)
    /\ SubSeq(calls, 1, Len(VerificationCalls)) = VerificationCalls
    /\ loc.token0 \in PairTokens /\ loc.token1 \in PairTokens

\* C1: sendTelegramMessage is called for a log only if every verification
\* step passed (transaction fetched and mined, selector a9059cbb, name()
\* containing "Uniswap", arguments decoded, recipient the dead address,
\* totalSupply/token0/token1 read); a failed step makes processLPBurn return
\* an error, with no alert for that log and the loop back at its select.
Theorem_C1 ==
    /\ AlertSent => AllVerified
    /\ txHash \in Range(alerts) => AlertSent
    /\ err \in VerificationErrors =>
          /\ BackInLoop
          /\ ~AlertSent
          /\ txHash \notin Range(alerts)

\* an alert went out for a verified burn
Witness_C1 == err = "nil" /\ AlertSent /\ AllVerified /\ txHash \in Range(alerts)

BadCallData(data) ==
    DataLen(data) < 4 \/ functionSelector(data) # Selector_a9059cbb

\* C2: call data shorter than 4 bytes, or with a selector other than
\* a9059cbb, makes processLPBurn return not-a-burn with TransactionByHash
\* as the only call of the pass.
Theorem_C2 ==
    (loc.fetched /\ BadCallData(loc.tx.data)) =>
        /\ BackInLoop
        /\ err \in {"transaction data too short", "not a transfer function call"}
        /\ calls = <<"TransactionByHash">>
        /\ txHash \notin Range(alerts)

\* a 4-byte selector other than a9059cbb was rejected
Witness_C2 ==
    /\ loc.fetched
    /\ DataLen(loc.tx.data) >= 4
    /\ functionSelector(loc.tx.data) # Selector_a9059cbb
    /\ err = "not a transfer function call"

\* C3: a name() value without the case-sensitive substring "Uniswap" makes
\* processLPBurn return not-a-burn before the transfer arguments are
\* decoded, and no call follows name().
Theorem_C3 ==
    (loc.lpName # <<>> /\ ~Contains(loc.lpName, Str_Uniswap)) =>
        /\ BackInLoop
        /\ err = "not a Uniswap LP"
        /\ ~loc.unpackCalled /\ ~loc.decoded
        /\ calls = <<"TransactionByHash", "name">>

\* a name that differs from "Uniswap" only in letter case was rejected
Witness_C3 ==
    /\ loc.lpName = ToLower(Str_Uniswap)
    /\ err = "not a Uniswap LP"
    /\ ~loc.unpackCalled

\* C4: a decoded recipient that differs from the dead address is rejected
\* as not-a-burn, and one that equals it is not rejected by this step,
\* whatever the letter case of the configured DEAD_ADDR.
Counterexample_C4 ==
    loc.decoded =>
        /\ loc.to # DeadAddress => err = "tokens not sent to dead address"
        /\ loc.to = DeadAddress => err # "tokens not sent to dead address"

\* C5: whatever the chain reads return, processLPBurn returns to watchLogs;
\* only a subscription error stops the loop (the process never dies inside
\* the handler).
Counterexample_C5 ==
    /\ pc # "panic"
    /\ pc = "returned" => subErr = "received"

\* the metrics stage has read the token's self-held balance
BalanceRead == "balanceOf" \in Range(calls)

\* C6: whichever of totalSupply(), decimals() and balanceOf() fail, the
\* metrics stage completes and sendTelegramMessage is reached.
Counterexample_C6 ==
    BalanceRead => (pc = "sendTelegramMessage" \/ AlertSent)

\* C7: once watchLogs has received the subscription error it has returned,
\* and from then on no log is handed to processLPBurn and no call is made,
\* even with logs still waiting.
Theorem_C7 ==
    /\ [](subErr = "received" => pc = "returned")
    /\ [][subErr = "received" =>
            /\ pc' = "returned"
            /\ UNCHANGED <<processed, alerts, calls, txHash>>]_vars

\* the error was received while a log was still waiting on the channel
Witness_C7 == subErr = "received" /\ pc = "returned" /\ logs # <<>>

\* the pass is over: processLPBurn has returned or the process has died
PassOver == pc \in {"select", "returned", "panic"} /\ Len(calls) > 0

\* C8: when getTokenDetails or getPriceData returned an error for a verified
\* log, the sentinels are substituted and sendTelegramMessage is still
\* called with a message that carries them.
Counterexample_C8 ==
    (PassOver /\ loc.failed \cap {"details", "price"} # {}) =>
        /\ AlertSent
        /\ "details" \in loc.failed =>
              /\ loc.message.name = "Unknown" /\ loc.message.symbol = "UNK"
              /\ loc.message.honeypot = "Unknown"
              /\ loc.message.buyTax = "Unknown" /\ loc.message.sellTax = "Unknown"
              /\ loc.message.holderCount = "0"
              /\ loc.message.topHolders = <<"N/A">>
        /\ "price" \in loc.failed => loc.message.mcap = <<"0">>

\* the underlying token of the pass has been selected
TokenSelected == loc.token1 # NilAddress

\* C9: token0 the wrapped-native address selects token1, token1 the
\* wrapped-native address selects token0, whatever the letter case of the
\* configured WETH_ADDR.
Counterexample_C9 ==
    TokenSelected =>
        /\ loc.token0 = WethAddress => loc.tokenContract = loc.token1
        /\ loc.token1 = WethAddress => loc.tokenContract = loc.token0

\* the LP supply was read and the burn percentage computed
PercentageComputed == pc = "getToken0" \/ Len(calls) > 3

\* (S / 10^18) / (B / 10^18) * 100 as the rational 100 * S / B
SupplyOverBurned(S, B) == Fin(100 * S.m, B.m, S.e - B.e)

LPExample == loc.lpSupply = BigInt(1, 24) /\ loc.value = BigInt(1, 22)

\* C10 as stated: the percentage is supply over burned times 100, and it
\* is 9900.0 for S = 1,000,000e18 and B = 10,000e18.
Counterexample_C10 ==
    (PercentageComputed /\ loc.value.m > 0) =>
        /\ loc.percentage = SupplyOverBurned(loc.lpSupply, loc.value)
        /\ LPExample => loc.percentage = NewFloat(9900)

\* C10, amended: the percentage is supply over burned times 100, and it is
\* 10000.0 for S = 1,000,000e18 and B = 10,000e18.
Theorem_C10 ==
    (PercentageComputed /\ loc.value.m > 0) =>
        /\ loc.percentage = SupplyOverBurned(loc.lpSupply, loc.value)
        /\ LPExample => loc.percentage = NewFloat(10000)

\* the percentage of the example was computed
Witness_C10 ==
    PercentageComputed /\ LPExample /\ loc.percentage = NewFloat(10000)

\* (Hb / 10^d) / (T / 10^d) * 100 as the rational 100 * Hb / T
HeldOverSupply(Hb, T) == Fin(100 * Hb.m, T.m, Hb.e - T.e)

ClogExample ==
    /\ loc.tokenDecimals = 18
    /\ loc.tokenSupply = BigInt(1, 24)
    /\ loc.tokenBalance = BigInt(5, 22)

\* C11: with a total supply T > 0, the clog percentage is held balance over
\* supply times 100 whatever the decimals d, and it is 5.0 for d = 18,
\* T = 1,000,000e18 and Hb = 50,000e18.
Theorem_C11 ==
    (BalanceRead /\ loc.tokenSupply.m > 0) =>
        /\ loc.cloggedPercentage = HeldOverSupply(loc.tokenBalance, loc.tokenSupply)
        /\ ClogExample => loc.cloggedPercentage = NewFloat(5)

\* the clog percentage of the example was computed
Witness_C11 ==
    BalanceRead /\ ClogExample /\ loc.cloggedPercentage = NewFloat(5)

\* C12: every normalized amount of the underlying token is divided by 10^d
\* with d the value decimals() returned in this pass (never a fixed or
\* default d), and the LP amount is divided by 10^18.
Counterexample_C12 ==
    /\ PercentageComputed =>
          loc.burnedLP = Quo(SetInt(loc.value), SetInt(Exp10(18)))
    /\ BalanceRead =>
          /\ "decimals" \notin loc.failed
          /\ loc.tokenHolding =
                Quo(SetInt(loc.tokenBalance), SetInt(Exp10(loc.tokenDecimals)))

\* errors sendTelegramMessage returns: PostForm failed, or status not 200
DeliveryErrors == {"telegram transport error", "telegram API error"}

Count(seq, x) == Cardinality({i \in 1..Len(seq) : seq[i] = x})

\* C13: when sendTelegramMessage returns an error, processLPBurn hands it to
\* watchLogs, which is back at its select (it has not returned and the
\* process has not ended), and the alert of that log was posted once only.
Theorem_C13 ==
    err \in DeliveryErrors =>
        /\ BackInLoop
        /\ Count(calls, "POST telegram") = 1
        /\ Count(alerts, txHash) = 1

\* a delivery failed and watchLogs is at its select with the next log waiting
Witness_C13 ==
    err = "telegram API error" /\ pc = "select" /\ logs # <<>> /\ AlertSent

\* a processLPBurn invocation is in progress
InPass == pc \notin {"subscribe", "select", "returned", "fatal", "panic"}

\* C14: the logs handed to processLPBurn, followed by those still waiting,
\* are the logs delivered, each once and in delivery order; the invocation
\* in progress works on the last log handed over; and a log is taken from
\* the channel only at the select, when no invocation is in progress.
Theorem_C14 ==
    /\ [](processed \o logs = [i \in 1..produced |-> i])
    /\ [](InPass => txHash = processed[Len(processed)])
    /\ [][processed' # processed =>
            /\ ~InPass /\ pc = "select"
            /\ processed' = Append(processed, Head(logs))
            /\ logs' = Tail(logs)
            /\ txHash' = Head(logs)]_vars

\* the first log was processed up to its alert and the second is in progress
Witness_C14 ==
    /\ processed = <<1, 2>>
    /\ alerts = <<1>>
    /\ InPass
    /\ txHash = 2

NeitherIsWeth == loc.token0 # WethAddress /\ loc.token1 # WethAddress

BothAreWeth == loc.token0 = WethAddress /\ loc.token1 = WethAddress

\* C15: a token0 other than the wrapped-native address is selected whatever
\* token1 is; with neither token the wrapped-native address the selected
\* token is token0 and processLPBurn does not reject the log; with both the
\* wrapped-native address the selected token is that address.
Theorem_C15 ==
    TokenSelected =>
        /\ loc.token0 # WethAddress => loc.tokenContract = loc.token0
        /\ NeitherIsWeth =>
              /\ loc.tokenContract = loc.token0
              /\ err \notin VerificationErrors
        /\ BothAreWeth => loc.tokenContract = WethAddress

\* the alert went out for a pair of two tokens, neither of them the
\* wrapped-native address
Witness_C15 ==
    /\ TokenSelected /\ NeitherIsWeth
    /\ loc.token0 # loc.token1
    /\ loc.tokenContract = loc.token0
    /\ err = "nil" /\ AlertSent /\ txHash \in Range(alerts)
====
